---- MODULE Spec2Model ----
(***************************************************************************)
(* Token subsystem of GMC-sso: issuing access/refresh JWT pairs            *)
(* (TokenHelper), validating them (TokenHelper.token_payload,              *)
(* TokenValidator), revocation bookkeeping in Redis                        *)
(* (SessionStorageService) and the login / refresh / logout use cases      *)
(* (AuthUseCase).                                                          *)
(*                                                                         *)
(* Modelling conventions                                                   *)
(*  - Time is an integer number of seconds (variable now).                 *)
(*  - A JWT is the record of its claims plus a signature tag: sig = "good" *)
(*    for a token signed with TOKEN_SECRET_KEY, "bad" for one signed with  *)
(*    another secret.  jwt.decode checks the tag and the exp claim.        *)
(*  - The Redis database is a function from live keys to                   *)
(*    [value, expireAt]; a key written by SETEX at time t with ttl lives   *)
(*    while now < t + ttl.  The key "{sid}:{jti}" is the pair <<sid, jti>>;*)
(*    the pattern "{sid}:*" matches the keys whose first component is sid  *)
(*    (sids are UUID strings: no ':' and no glob characters).              *)
(*  - Redis calls are modelled by their effect on the database and every   *)
(*    call returns normally (also the awaited ones of                      *)
(*    SessionStorageService); the logging decorator is transparent.        *)
(*  - uuid.uuid4() is a fresh number taken from the counter nextJti.       *)
(***************************************************************************)
EXTENDS Integers, FiniteSets, Sequences, TLC

\* ---------------------------------------------------------------- bounds
MaxTime == 4
MaxPairs == 2

\* Seconds that may pass inside create_token_pair between the creation of the
\* tokens and their registration in Redis (never more than the shortest
\* token lifetime).
Delays == {0, 2}

\* ------------------------------------------------------------- constants
\* settings.project.ACCESS_TOKEN_EXPIRE_SECONDS, scaled to model seconds
ACCESS_TOKEN_EXPIRE_SECONDS == 2
\* settings.project.REFRESH_TOKEN_EXPIRE_SECONDS, scaled to model seconds
REFRESH_TOKEN_EXPIRE_SECONDS == 3

\* PasswordHelper.get_password_hash
GetPasswordHash(password) == <<"bcrypt", password>>

\* The user table behind IUserRepository (get_by_email, get_by_sid).
UserTable ==
  { [sid |-> "u1", email |-> "a@x",
     hashed_password |-> GetPasswordHash("pw1")],
    [sid |-> "u2", email |-> "b@x",
     hashed_password |-> GetPasswordHash("pw2")] }

\* Inputs of the login form.
Usernames == {"a@x", "b@x", "nobody@x"}
Passwords == {"pw1", "pw2"}

\* Payloads handed directly to TokenHelper.create_token_pair (SpecHelper).
\* The forms submitted to create_user and the sids uuid4 can give new rows
UserCreateForms ==
  {[email |-> e, hashed_password |-> GetPasswordHash(p)] :
     e \in {"a@x", "c@x", "nobody@x"}, p \in Passwords}

FreshSids == {"u4", "u5"}

\* (code, HTTP status) of the error members
ErrorCodes ==
  [INCORRECT_CREDENTIALS |-> <<201, 401>>,
   EMAIL_ALREADY_EXISTS |-> <<203, 400>>,
   NOT_UNIQUE |-> <<1, 400>>,
   BAD_REFRESH_TOKEN |-> <<100, 401>>,
   BAD_ACCESS_TOKEN |-> <<101, 401>>,
   INVALID_TOKEN |-> <<102, 402>>,
   UNDEFINED |-> <<0, 500>>]

Payloads ==
  { [sub |-> "u1", permissions |-> <<"read", "write">>],
    [sub |-> "u3", permissions |-> << >>],
    [sub |-> "", permissions |-> <<"777">>] }

VARIABLES now, store, issued, nextJti, invalidated, last, users, inflight

vars == <<now, store, issued, nextJti, invalidated, last, users, inflight>>

\* ------------------------------------------------------------ value types
NoToken ==
  [sub |-> "", permissions |-> <<>>, jti |-> 0, token |-> "none",
   exp |-> 0, sig |-> "none"]

\* The empty string presented as a token.
EmptyToken ==
  [sub |-> "", permissions |-> <<>>, jti |-> 0, token |-> "empty",
   exp |-> 0, sig |-> "none"]

NoData == [sid |-> "", jti |-> 0, permissions |-> <<>>]

NoPair == [access_token |-> NoToken, refresh_token |-> NoToken]

NoUser == [sid |-> "", email |-> "", hashed_password |-> << >>]

NoCred == <<"", "">>

\* The most recent request and its result: op is the operation, token the
\* presented token, flag the `everywhere` argument of logout or the `refresh`
\* argument of token_payload, pair the LoginToken returned, data the
\* TokenData returned, queried whether Redis was read by token_payload,
\* cred the submitted form (username and password of login, email and
\* hashed_password of create_user), user the UserModel returned, fault the
\* number of the Redis command of the request that raised (0: none did).
NoLast ==
  [op |-> "none", token |-> NoToken, flag |-> FALSE, outcome |-> "none",
   pair |-> NoPair, data |-> NoData, queried |-> FALSE,
   cred |-> NoCred, user |-> NoUser, fault |-> 0]

\* The handlers in flight next to the request being served: scan is a call of
\* invalidate_all_sessions (pc, its user_id, the keys returned by KEYS that
\* are still to be invalidated, and the keys that existed when the call
\* started), reg is a call of create_token_pair (pc, the pair it created),
\* refresh the calls of update_access_token (pc, the token presented, the
\* pair returned, and whether an invalidate_all_sessions that found the
\* token's record had returned before the call started).
Handlers == {1, 2}

NoRefreshCall ==
  [pc |-> "idle", token |-> NoToken, pair |-> NoPair, afterLogout |-> FALSE]

NoInflight ==
  [scan |-> [pc |-> "idle", user_id |-> "", keys |-> {}, before |-> {}],
   reg |-> [pc |-> "idle", pair |-> NoPair],
   refresh |-> [h \in Handlers |-> NoRefreshCall]]

\* ------------------------------------------------------------ Redis store
\* redis key f"{sid}:{jti}"
RedisKey(sid, jti) == <<sid, jti>>

\* Mutant of Purge: no key ever expires.
PurgeKeepsAll(st, t) == st

\* Keys whose TTL has run out at time t are gone.
Purge(st, t) ==
  [k \in {x \in DOMAIN st : t < st[x].expireAt} |-> st[k]]

\* Mutant of Setex: an existing key keeps the expiry it had.
SetexKeepsOldTtl(st, name, time, value, t) ==
  [k \in (DOMAIN st) \cup {name} |->
     IF k = name
     THEN [value |-> value,
           expireAt |-> IF name \in DOMAIN st THEN st[name].expireAt
                        ELSE t + time]
     ELSE st[k]]

\* redis.setex(name, time, value) executed at time t
Setex(st, name, time, value, t) ==
  [k \in (DOMAIN st) \cup {name} |->
     IF k = name THEN [value |-> value, expireAt |-> t + time] ELSE st[k]]

\* Mutant of Get: a missing key reads as the valid marker (fail-open).
GetFailOpen(st, name) ==
  IF name \in DOMAIN st THEN st[name].value ELSE "False"

\* redis.get(name): the stored value, or "nil" when the key does not exist
Get(st, name) ==
  IF name \in DOMAIN st THEN st[name].value ELSE "nil"

\* Mutant of Keys: the pattern is not anchored on the subject.
KeysAnySubject(st, user_id) == DOMAIN st

\* redis.keys(f"{user_id}:*")
Keys(st, user_id) == {k \in DOMAIN st : k[1] = user_id}

\* ------------------------------------------------------------- JWT codec
\* Mutant of CreateToken: the token type is always "access".
CreateTokenAlwaysAccess(data, expires_delta, jti, refresh, t) ==
  [sub |-> data.sub, permissions |-> data.permissions, jti |-> jti,
   token |-> "access", exp |-> t + expires_delta, sig |-> "good"]

\* TokenHelper.create_token: jwt.encode of data + exp + jti + token type
CreateToken(data, expires_delta, jti, refresh, t) ==
  [sub |-> data.sub, permissions |-> data.permissions, jti |-> jti,
   token |-> IF refresh THEN "refresh" ELSE "access",
   exp |-> t + expires_delta, sig |-> "good"]

\* Mutant of DecodeOk: the exp claim is not verified.
DecodeOkIgnoresExp(token, t) == token.sig = "good"

\* jwt.decode succeeds: the signature verifies and exp is not in the past
\* (python-jose raises ExpiredSignatureError when exp < now).
DecodeOk(token, t) == token.sig = "good" /\ ~(token.exp < t)

\* The same claims signed with a different secret.
Forge(token) == [token EXCEPT !.sig = "bad"]

\* ------------------------------------------------- TokenHelper.token_payload
\* Mutant of Rejected: Redis has been read before every rejection.
RejectedAfterLookup(reason, q) ==
  [outcome |-> reason, data |-> NoData, queried |-> TRUE]

Rejected(reason, q) ==
  [outcome |-> reason, data |-> NoData, queried |-> q]

\* Mutant of TokenPayload: the token type is not compared with the expected
\* one.
TokenPayloadNoKindCheck(token, refresh, t, st) ==
  IF ~DecodeOk(token, t) THEN Rejected("INVALID_TOKEN", FALSE)
  ELSE IF token.sub = "" THEN Rejected("INCORRECT_CREDENTIALS", FALSE)
  ELSE IF Get(st, RedisKey(token.sub, token.jti)) # "False"
    THEN Rejected(IF refresh THEN "BAD_REFRESH_TOKEN"
                  ELSE "BAD_ACCESS_TOKEN", TRUE)
  ELSE [outcome |-> "Valid",
        data |-> [sid |-> token.sub, jti |-> token.jti,
                  permissions |-> token.permissions],
        queried |-> TRUE]

TokenPayload(token, refresh, t, st) ==
  IF ~DecodeOk(token, t) THEN Rejected("INVALID_TOKEN", FALSE)
  ELSE IF refresh /\ token.token # "refresh"
    THEN Rejected("BAD_REFRESH_TOKEN", FALSE)
  ELSE IF ~refresh /\ token.token # "access"
    THEN Rejected("BAD_ACCESS_TOKEN", FALSE)
  ELSE IF token.sub = "" THEN Rejected("INCORRECT_CREDENTIALS", FALSE)
  ELSE IF Get(st, RedisKey(token.sub, token.jti)) # "False"
    THEN Rejected(IF refresh THEN "BAD_REFRESH_TOKEN"
                  ELSE "BAD_ACCESS_TOKEN", TRUE)
  ELSE [outcome |-> "Valid",
        data |-> [sid |-> token.sub, jti |-> token.jti,
                  permissions |-> token.permissions],
        queried |-> TRUE]

\* Mutant of TokenPayloadStore: the record is dropped when it is read.
TokenPayloadStoreConsumes(token, refresh, t, st) ==
  IF TokenPayload(token, refresh, t, st).queried
  THEN [k \in DOMAIN st \ {RedisKey(token.sub, token.jti)} |-> st[k]]
  ELSE st

\* The database after token_payload: its only Redis command is GET, which
\* leaves every key, value and TTL as it was.
TokenPayloadStore(token, refresh, t, st) == st

\* ------------------------------------------- TokenService.validate_token
\* Only jwt.decode: the payload, or the JWTError of the library.
ValidateToken(token, t) ==
  IF DecodeOk(token, t) THEN "payload" ELSE "JWTError"

\* --------------------------------------- TokenValidator.validate_access_token
\* An empty token and every rejection of token_payload end in
\* `raise self._errors.User.INCORRECT_CREDENTIALS`, which raises an Enum
\* member: Python answers with TypeError.
ValidateAccessToken(token, t, st) ==
  IF token = EmptyToken THEN Rejected("TypeError", FALSE)
  ELSE LET r == TokenPayload(token, FALSE, t, st)
       IN IF r.outcome = "Valid" THEN r
          ELSE Rejected("TypeError", r.queried)

\* -------------------------------------- TokenValidator.validate_refresh_token
\* An empty token raises the Enum member (TypeError); the handler catches
\* JWTError only, and token_payload raises none, so each BackendException of
\* token_payload reaches the caller as it is.
ValidateRefreshToken(token, t, st) ==
  IF token = EmptyToken THEN Rejected("TypeError", FALSE)
  ELSE TokenPayload(token, TRUE, t, st)

\* ------------------------------------------------------- user repository
GetByEmail(email) == {u \in users : u.email = email}
GetBySid(sid) == {u \in users : u.sid = sid}

\* CrudRepository.create with with_commit = False: the row is added and
\* flushed, so later queries of the session see it; the unique index on
\* email answers a duplicate with IntegrityError, raised as NOT_UNIQUE.
Create(obj_in, sid) ==
  LET db_obj == [sid |-> sid, email |-> obj_in.email,
                 hashed_password |-> obj_in.hashed_password]
  IN IF \E u \in users : u.email = obj_in.email
     THEN [outcome |-> "NOT_UNIQUE", users |-> users, user |-> NoUser]
     ELSE [outcome |-> "ok", users |-> users \cup {db_obj},
           user |-> db_obj]

\* Mutant of UserServiceCreateUser: the email is not looked up first.
UserServiceCreateUserNoLookup(user_in, sid) ==
  Create(user_in, sid)

\* UserService.create_user; sid is the uuid4 default of the new row
UserServiceCreateUser(user_in, sid) ==
  IF GetByEmail(user_in.email) # {}
  THEN [outcome |-> "EMAIL_ALREADY_EXISTS", users |-> users,
        user |-> NoUser]
  ELSE Create(user_in, sid)

\* PasswordHelper.verify_password
VerifyPassword(password, hashed_password) ==
  GetPasswordHash(password) = hashed_password

\* Mutant of Authenticate: the password is not verified.
AuthenticateAnyPassword(username, password) ==
  GetByEmail(username)

\* AuthManagerService.authenticate: the authenticated users (none on failure)
Authenticate(username, password) ==
  {u \in GetByEmail(username) : VerifyPassword(password, u.hashed_password)}

\* ------------------------------------------------- SessionStorageService
\* Mutant of InvalidateSession: the marker written is the valid one.
InvalidateSessionKeepsValid(st, session_id, expire_seconds, t) ==
  Setex(st, session_id, expire_seconds, "False", t)

\* invalidate_session: SETEX session_id expire_seconds "True"
InvalidateSession(st, session_id, expire_seconds, t) ==
  Setex(st, session_id, expire_seconds, "True", t)

\* Mutant of InvalidateEach: the loop stops after the first key.
InvalidateEachFirstOnly(st, keys, expire_seconds, t) ==
  IF keys = {} THEN st
  ELSE LET key == CHOOSE k \in keys : TRUE
       IN Setex(st, key, expire_seconds, "True", t)

RECURSIVE InvalidateEach(_, _, _, _)
InvalidateEach(st, keys, expire_seconds, t) ==
  IF keys = {} THEN st
  ELSE LET key == CHOOSE k \in keys : TRUE
       IN InvalidateEach(InvalidateSession(st, key, expire_seconds, t),
                         keys \ {key}, expire_seconds, t)

\* invalidate_all_sessions: KEYS "{user_id}:*", then invalidate each
InvalidateAllSessions(st, user_id, expire_seconds, t) ==
  InvalidateEach(st, Keys(st, user_id), expire_seconds, t)

\* ------------------------------------------- TokenHelper.create_token_pair
\* Mutant of PairTokens: both tokens get the access lifetime.
PairTokensSameLifetime(payload, jti0, t) ==
  [access_token |->
     CreateToken(payload, ACCESS_TOKEN_EXPIRE_SECONDS, jti0 + 1, FALSE, t),
   refresh_token |->
     CreateToken(payload, ACCESS_TOKEN_EXPIRE_SECONDS, jti0 + 2, TRUE, t)]

\* The two tokens are created at time t; the two SETEX run at time t + d.
PairTokens(payload, jti0, t) ==
  [access_token |->
     CreateToken(payload, ACCESS_TOKEN_EXPIRE_SECONDS, jti0 + 1, FALSE, t),
   refresh_token |->
     CreateToken(payload, REFRESH_TOKEN_EXPIRE_SECONDS, jti0 + 2, TRUE, t)]

\* Mutant of RegisterPair: only the refresh record is registered.
RegisterPairRefreshOnly(st, payload, jti0, t) ==
  Setex(st, RedisKey(payload.sub, jti0 + 2),
        REFRESH_TOKEN_EXPIRE_SECONDS, "False", t)

RegisterPair(st, payload, jti0, t) ==
  Setex(Setex(st, RedisKey(payload.sub, jti0 + 1),
              ACCESS_TOKEN_EXPIRE_SECONDS, "False", t),
        RedisKey(payload.sub, jti0 + 2),
        REFRESH_TOKEN_EXPIRE_SECONDS, "False", t)

CanIssue(d) == nextJti + 2 <= 2 * MaxPairs /\ now + d <= MaxTime

\* Mutant of Uuid4: the ids of the previous pair are drawn again.
Uuid4Repeated == IF nextJti = 0 THEN nextJti ELSE nextJti - 2

\* uuid.uuid4(): the two ids drawn are Uuid4 + 1 and Uuid4 + 2, never drawn
\* before.
Uuid4 == nextJti

\* create_token_pair on database st0 (state of the handler before the call)
CreateTokenPair(st0, payload, d, op, presented, cred) ==
  LET pair == PairTokens(payload, Uuid4, now)
  IN /\ now' = now + d
     /\ store' = RegisterPair(Purge(st0, now + d), payload, Uuid4, now + d)
     /\ issued' = issued \cup {pair.access_token, pair.refresh_token}
     /\ nextJti' = nextJti + 2
     /\ last' = [NoLast EXCEPT !.op = op, !.token = presented,
                                !.outcome = "ok", !.pair = pair,
                                !.cred = cred]

\* Tokens a client can present: issued ones, the same claims under another
\* signature, and the empty string.
Presentable == issued \cup {Forge(tk) : tk \in issued} \cup {EmptyToken}

Result(op, token, flag, outcome) ==
  [NoLast EXCEPT !.op = op, !.token = token, !.flag = flag,
                 !.outcome = outcome]

\* ----------------------------------------------------------------- actions
\* Requests are served one at a time: a handler starts when the response of
\* the previous request has left the server.
Idle == last = NoLast

Init ==
  /\ now = 0
  /\ store = << >>
  /\ issued = {}
  /\ nextJti = 0
  /\ invalidated = {}
  /\ last = NoLast
  /\ users = UserTable
  /\ inflight = NoInflight

\* One second passes; Redis drops the keys whose TTL ran out.
Tick ==
  /\ Idle
  /\ UNCHANGED <<users, inflight>>
  /\ now < MaxTime
  /\ now' = now + 1
  /\ store' = Purge(store, now + 1)
  /\ UNCHANGED <<issued, nextJti, invalidated, last>>

\* AuthUseCase.get_token_pair
Login ==
  \E username \in Usernames, password \in Passwords, d \in Delays :
    LET found == Authenticate(username, password)
    IN /\ Idle
       /\ UNCHANGED <<users, inflight>>
       /\ IF found = {}
          THEN /\ last' = [Result("login", NoToken, FALSE,
                                   "INCORRECT_CREDENTIALS")
                              EXCEPT !.cred = <<username, password>>]
               /\ UNCHANGED <<now, store, issued, nextJti, invalidated>>
          ELSE /\ CanIssue(d)
               /\ LET user == CHOOSE u \in found : TRUE
                  IN CreateTokenPair(store,
                       [sub |-> user.sid, permissions |-> <<"777">>],
                       d, "login", NoToken, <<username, password>>)
               /\ UNCHANGED invalidated

\* Mutant of UpdateAccessTokenSessionId: the session of the access token
\* issued together with the presented token.
UpdateAccessTokenSessionIdOfAccess(token) ==
  RedisKey(token.sub, token.jti - 1)

\* update_access_token, session_id = f"{payload['sub']}:{payload['jti']}"
UpdateAccessTokenSessionId(token) ==
  RedisKey(token.sub, token.jti)

\* Mutant of UpdateAccessTokenInvalidate: the marker gets the access TTL.
UpdateAccessTokenInvalidateShortTtl(st, token, t) ==
  InvalidateSession(st, UpdateAccessTokenSessionId(token),
                    ACCESS_TOKEN_EXPIRE_SECONDS, t)

\* update_access_token, the invalidation of the presented token's session
UpdateAccessTokenInvalidate(st, token, t) ==
  InvalidateSession(st, UpdateAccessTokenSessionId(token),
                    REFRESH_TOKEN_EXPIRE_SECONDS, t)

\* update_access_token, the payload handed to create_token_pair
UpdateAccessTokenPayloadFixedPermissions(token) ==
  [sub |-> token.sub, permissions |-> <<"777">>]
UpdateAccessTokenPayload(token) ==
  [sub |-> token.sub, permissions |-> token.permissions]

\* AuthUseCase.update_access_token
Refresh ==
  \E token \in Presentable, d \in Delays :
    /\ Idle
    /\ UNCHANGED <<users, inflight>>
    /\ IF ValidateToken(token, now) = "JWTError"
       THEN /\ last' = Result("refresh", token, FALSE, "JWTError")
            /\ UNCHANGED <<now, store, issued, nextJti, invalidated>>
       ELSE LET session_id == UpdateAccessTokenSessionId(token)
            IN /\ CanIssue(d)
               /\ invalidated' = invalidated \cup {session_id}
               /\ CreateTokenPair(
                    UpdateAccessTokenInvalidate(store, token, now),
                    UpdateAccessTokenPayload(token),
                    d, "refresh", token, NoCred)

\* AuthUseCase.delete_tokens, its effect on Redis
DeleteTokensAlwaysEverywhere(st, user, token, everywhere, t) ==
  InvalidateAllSessions(st, user.sid, ACCESS_TOKEN_EXPIRE_SECONDS, t)
DeleteTokens(st, user, token, everywhere, t) ==
  IF everywhere
  THEN InvalidateAllSessions(st, user.sid, ACCESS_TOKEN_EXPIRE_SECONDS, t)
  ELSE InvalidateSession(st, RedisKey(user.sid, token.jti),
                         ACCESS_TOKEN_EXPIRE_SECONDS, t)

\* logout endpoint: get_current_user, then AuthUseCase.delete_tokens
Logout ==
  \E token \in Presentable, everywhere \in BOOLEAN :
    LET v == ValidateAccessToken(token, now, store)
        found == GetBySid(v.data.sid)
    IN /\ Idle
       /\ UNCHANGED <<users, inflight>>
       /\ UNCHANGED <<now, issued, nextJti>>
       /\ IF v.outcome # "Valid"
          THEN /\ last' = Result("logout", token, everywhere, v.outcome)
               /\ UNCHANGED <<store, invalidated>>
          ELSE IF found = {}
          THEN /\ last' = Result("logout", token, everywhere,
                                 "INCORRECT_CREDENTIALS")
               /\ UNCHANGED <<store, invalidated>>
          ELSE LET user == CHOOSE u \in found : TRUE
               IN /\ last' = Result("logout", token, everywhere, "ok")
                  /\ store' = DeleteTokens(store, user, token,
                                            everywhere, now)
                  /\ invalidated' = invalidated \cup
                       (IF everywhere
                        THEN Keys(store, user.sid)
                        ELSE {RedisKey(user.sid, token.jti)})

\* A protected endpoint validates a presented token (token_payload).
Validate ==
  \E token \in Presentable, refresh \in BOOLEAN :
    LET r == TokenPayload(token, refresh, now, store)
    IN /\ Idle
       /\ UNCHANGED <<users, inflight>>
       /\ last' = [NoLast EXCEPT !.op = "validate", !.token = token,
                                   !.flag = refresh, !.outcome = r.outcome,
                                   !.data = r.data, !.queried = r.queried]
       /\ store' = TokenPayloadStore(token, refresh, now, store)
       /\ UNCHANGED <<now, issued, nextJti, invalidated>>

\* A caller of TokenValidator validates a presented token as an access token
\* (refresh = FALSE) or as a refresh token (refresh = TRUE).
ValidatorCheck ==
  \E token \in Presentable, refresh \in BOOLEAN :
    LET r == IF refresh THEN ValidateRefreshToken(token, now, store)
             ELSE ValidateAccessToken(token, now, store)
    IN /\ Idle
       /\ UNCHANGED <<users, inflight>>
       /\ last' = [NoLast EXCEPT !.op = "validator", !.token = token,
                                   !.flag = refresh, !.outcome = r.outcome,
                                   !.data = r.data, !.queried = r.queried]
       /\ store' = IF token = EmptyToken THEN store
                   ELSE TokenPayloadStore(token, refresh, now, store)
       /\ UNCHANGED <<now, issued, nextJti, invalidated>>

\* register endpoint: UserUseCase.create_user, UserService.create_user
CreateUser ==
  \E user_in \in UserCreateForms :
    \E sid \in FreshSids \ {u.sid : u \in users} :
      LET r == UserServiceCreateUser(user_in, sid)
      IN /\ Idle
         /\ users' = r.users
         /\ last' = [NoLast EXCEPT
                       !.op = "create_user", !.outcome = r.outcome,
                       !.cred = <<user_in.email, user_in.hashed_password>>,
                       !.user = r.user]
         /\ UNCHANGED <<now, store, issued, nextJti, invalidated, inflight>>

\* TokenHelper.create_token_pair called with an arbitrary payload
IssuePair ==
  \E payload \in Payloads, d \in Delays :
    /\ Idle
    /\ UNCHANGED <<users, inflight>>
    /\ CanIssue(d)
    /\ CreateTokenPair(store, payload, d, "issue", NoToken, NoCred)
    /\ UNCHANGED invalidated

\* The response of the last request is returned to the client.
Respond ==
  /\ ~Idle
  /\ UNCHANGED <<users, inflight>>
  /\ last' = NoLast
  /\ UNCHANGED <<now, store, issued, nextJti, invalidated>>

Next ==
  Tick \/ Login \/ Refresh \/ Logout \/ Validate \/ ValidatorCheck \/ Respond

Spec == Init /\ [][Next]_vars

NextHelper ==
  Tick \/ IssuePair \/ Refresh \/ Logout \/ Validate \/ ValidatorCheck
    \/ Respond

SpecHelper == Init /\ [][NextHelper]_vars

\* ------------------------------------- handlers running next to each other
\* create_token_pair of a login in flight, one step per Redis command; the
\* next login starts when the pair of the previous one has been returned.
\* RegCreate: the two jti are drawn and the two tokens are created.
RegCreate ==
  \E user \in users :
    /\ inflight.reg.pc \in {"idle", "done"}
    /\ nextJti + 2 <= 2 * MaxPairs
    /\ LET pair == PairTokens([sub |-> user.sid, permissions |-> <<"777">>],
                              nextJti, now)
       IN /\ inflight' = [inflight EXCEPT
                            !.reg = [pc |-> "created", pair |-> pair]]
          /\ issued' = issued \cup {pair.access_token, pair.refresh_token}
    /\ nextJti' = nextJti + 2
    /\ UNCHANGED <<now, store, invalidated, last, users>>

\* RegAccess: SETEX of the access record
RegAccess ==
  /\ inflight.reg.pc = "created"
  /\ store' = Setex(store,
                    RedisKey(inflight.reg.pair.access_token.sub,
                             inflight.reg.pair.access_token.jti),
                    ACCESS_TOKEN_EXPIRE_SECONDS, "False", now)
  /\ inflight' = [inflight EXCEPT !.reg.pc = "access"]
  /\ UNCHANGED <<now, issued, nextJti, invalidated, last, users>>

\* RegRefresh: SETEX of the refresh record, then the pair is returned
RegRefresh ==
  /\ inflight.reg.pc = "access"
  /\ store' = Setex(store,
                    RedisKey(inflight.reg.pair.refresh_token.sub,
                             inflight.reg.pair.refresh_token.jti),
                    REFRESH_TOKEN_EXPIRE_SECONDS, "False", now)
  /\ inflight' = [inflight EXCEPT !.reg.pc = "done"]
  /\ UNCHANGED <<now, issued, nextJti, invalidated, last, users>>

\* invalidate_all_sessions in flight, called by delete_tokens with
\* expire_seconds = ACCESS_TOKEN_EXPIRE_SECONDS.
\* ScanStart: the call starts; the keys of the user at that moment are noted.
ScanStart ==
  \E user \in users :
    /\ inflight.scan.pc = "idle"
    /\ inflight' = [inflight EXCEPT
                      !.scan = [pc |-> "called", user_id |-> user.sid,
                                keys |-> {},
                                before |-> Keys(store, user.sid)]]
    /\ UNCHANGED <<now, store, issued, nextJti, invalidated, last, users>>

\* ScanKeys: keys = redis.keys("{user_id}:*")
ScanKeys ==
  /\ inflight.scan.pc = "called"
  /\ inflight' = [inflight EXCEPT
                    !.scan.pc = "loop",
                    !.scan.keys = Keys(store, inflight.scan.user_id)]
  /\ UNCHANGED <<now, store, issued, nextJti, invalidated, last, users>>

\* Mutant of ForExhausted: the loop is left after any number of keys.
ForExhaustedEarly(keys) == TRUE

\* `for key in keys` has no key left
ForExhausted(keys) == keys = {}

\* ScanStep: one iteration, invalidate_session(key, expire_seconds)
ScanStep ==
  \E key \in inflight.scan.keys :
    /\ inflight.scan.pc = "loop"
    /\ store' = InvalidateSession(store, key,
                                  ACCESS_TOKEN_EXPIRE_SECONDS, now)
    /\ invalidated' = invalidated \cup {key}
    /\ inflight' = [inflight EXCEPT
                      !.scan.keys = inflight.scan.keys \ {key}]
    /\ UNCHANGED <<now, issued, nextJti, last, users>>

\* ScanReturn: the loop is over and the call returns
ScanReturn ==
  /\ inflight.scan.pc = "loop"
  /\ ForExhausted(inflight.scan.keys)
  /\ inflight' = [inflight EXCEPT !.scan.pc = "done", !.scan.keys = {}]
  /\ UNCHANGED <<now, store, issued, nextJti, invalidated, last, users>>

NextRace ==
  Tick \/ RegCreate \/ RegAccess \/ RegRefresh
    \/ ScanStart \/ ScanKeys \/ ScanStep \/ ScanReturn

SpecRace == Init /\ [][NextRace]_vars

\* --------------------------------------------- requests with Redis failing
\* The n-th Redis command of a request raises redis.exceptions.RedisError
\* (connection lost, timeout); n = 0: every command succeeds. No handler of
\* the subsystem names that exception in an except clause.
MaxFault == 4
Faults == 0..MaxFault

\* token_payload when its GET is command number 1 of the request: with
\* fault = 1 the GET, if reached, raises; `except jwt.JWTError` lets it pass.
TokenPayloadFaulty(token, refresh, t, st, fault) ==
  LET r == TokenPayload(token, refresh, t, st)
  IN IF fault = 1 /\ r.queried THEN Rejected("RedisError", TRUE) ELSE r

\* Mutant of ValidateAccessTokenFaulty: the handler catches every exception.
ValidateAccessTokenFaultyAbsorbs(token, t, st, fault) ==
  ValidateAccessToken(token, t, st)

\* validate_access_token: `except (JWTError, BackendException)` does not
\* catch the error of Redis.
ValidateAccessTokenFaulty(token, t, st, fault) ==
  IF token = EmptyToken THEN Rejected("TypeError", FALSE)
  ELSE LET r == TokenPayloadFaulty(token, FALSE, t, st, fault)
       IN IF r.outcome \in {"Valid", "RedisError"} THEN r
          ELSE Rejected("TypeError", r.queried)

\* validate_refresh_token: `except JWTError`
ValidateRefreshTokenFaulty(token, t, st, fault) ==
  IF token = EmptyToken THEN Rejected("TypeError", FALSE)
  ELSE TokenPayloadFaulty(token, TRUE, t, st, fault)

\* Mutant of RegisterPairUpTo: what was registered is removed on failure.
RegisterPairUpToRollback(st, payload, jti0, t, fault) == st

\* The two SETEX of create_token_pair when command number `fault` (1 or 2)
\* raises: the commands before it have been executed.
RegisterPairUpTo(st, payload, jti0, t, fault) ==
  IF fault = 1 THEN st
  ELSE Setex(st, RedisKey(payload.sub, jti0 + 1),
             ACCESS_TOKEN_EXPIRE_SECONDS, "False", t)

\* create_token_pair with Redis failing
IssuePairFault ==
  \E payload \in Payloads, d \in Delays, fault \in Faults :
    /\ Idle
    /\ CanIssue(d)
    /\ UNCHANGED <<users, inflight, invalidated>>
    /\ IF fault \in {1, 2}
       THEN /\ now' = now + d
            /\ store' = RegisterPairUpTo(Purge(store, now + d), payload,
                                         Uuid4, now + d, fault)
            /\ nextJti' = nextJti + 2
            /\ issued' = issued
            /\ last' = [NoLast EXCEPT !.op = "issue",
                                       !.outcome = "RedisError",
                                       !.fault = fault]
       ELSE /\ fault = 0
            /\ CreateTokenPair(store, payload, d, "issue", NoToken, NoCred)

\* token_payload with Redis failing
ValidateFault ==
  \E token \in Presentable, refresh \in BOOLEAN, fault \in Faults :
    LET r == TokenPayloadFaulty(token, refresh, now, store, fault)
    IN /\ Idle
       /\ fault <= 1
       /\ last' = [NoLast EXCEPT !.op = "validate", !.token = token,
                                   !.flag = refresh, !.outcome = r.outcome,
                                   !.data = r.data, !.queried = r.queried,
                                   !.fault = fault]
       /\ UNCHANGED <<now, store, issued, nextJti, invalidated, users,
                      inflight>>

\* TokenValidator with Redis failing
ValidatorCheckFault ==
  \E token \in Presentable, refresh \in BOOLEAN, fault \in Faults :
    LET r == IF refresh
             THEN ValidateRefreshTokenFaulty(token, now, store, fault)
             ELSE ValidateAccessTokenFaulty(token, now, store, fault)
    IN /\ Idle
       /\ fault <= 1
       /\ last' = [NoLast EXCEPT !.op = "validator", !.token = token,
                                   !.flag = refresh, !.outcome = r.outcome,
                                   !.data = r.data, !.queried = r.queried,
                                   !.fault = fault]
       /\ UNCHANGED <<now, store, issued, nextJti, invalidated, users,
                      inflight>>

\* logout with Redis failing: command 1 is the GET of get_current_user;
\* with everywhere = false command 2 is the SETEX of invalidate_session;
\* with everywhere = true command 2 is KEYS and command 3 + n is the SETEX
\* of the loop after n keys have been invalidated (in any order).
LogoutFault ==
  \E token \in Presentable, everywhere \in BOOLEAN, fault \in Faults :
    LET v == ValidateAccessTokenFaulty(token, now, store, fault)
        found == GetBySid(v.data.sid)
        keys == Keys(store, token.sub)
        res(outcome) == [Result("logout", token, everywhere, outcome)
                           EXCEPT !.fault = fault]
    IN /\ Idle
       /\ UNCHANGED <<now, issued, nextJti, users, inflight>>
       /\ IF v.outcome # "Valid"
          THEN /\ last' = res(v.outcome)
               /\ UNCHANGED <<store, invalidated>>
          ELSE IF found = {}
          THEN /\ last' = res("INCORRECT_CREDENTIALS")
               /\ UNCHANGED <<store, invalidated>>
          ELSE IF fault = 2
          THEN /\ last' = res("RedisError")
               /\ UNCHANGED <<store, invalidated>>
          ELSE IF everywhere /\ fault >= 3 /\ fault - 3 < Cardinality(keys)
          THEN \E S \in SUBSET keys :
                 /\ Cardinality(S) = fault - 3
                 /\ last' = res("RedisError")
                 /\ store' = InvalidateEach(store, S,
                                ACCESS_TOKEN_EXPIRE_SECONDS, now)
                 /\ invalidated' = invalidated \cup S
          ELSE LET user == CHOOSE u \in found : TRUE
               IN /\ last' = res("ok")
                  /\ store' = DeleteTokens(store, user, token,
                                            everywhere, now)
                  /\ invalidated' = invalidated \cup
                       (IF everywhere
                        THEN Keys(store, user.sid)
                        ELSE {RedisKey(user.sid, token.jti)})

\* Time passes inside create_token_pair only (Delays).
NextFault ==
  IssuePairFault \/ ValidateFault \/ ValidatorCheckFault \/ LogoutFault
    \/ Respond

SpecFault == Init /\ [][NextFault]_vars

\* ------------------------------------------------- the Redis commands alone
\* Keys and TTLs given to SETEX when the command is exercised on its own
StoreKeys == {RedisKey("u1", 1), RedisKey("u1", 2), RedisKey("u2", 1)}
StoreTtls == {ACCESS_TOKEN_EXPIRE_SECONDS, REFRESH_TOKEN_EXPIRE_SECONDS}

\* redis.setex(name, time, value) with the valid marker (create_token_pair)
\* or the invalid one (invalidate_session); last.data names the key,
\* last.flag tells whether the key held the valid marker before.
StoreSetex ==
  \E name \in StoreKeys, time \in StoreTtls, value \in {"False", "True"} :
    /\ Idle
    /\ store' = Setex(store, name, time, value, now)
    /\ last' = [NoLast EXCEPT
                  !.op = "setex", !.outcome = value,
                  !.flag = (Get(store, name) = "False"),
                  !.data = [sid |-> name[1], permissions |-> << >>,
                            jti |-> name[2]]]
    /\ UNCHANGED <<now, issued, nextJti, invalidated, users, inflight>>

NextStore == Tick \/ StoreSetex \/ Respond

SpecStore == Init /\ [][NextStore]_vars

\* The tokens a client holds: those of the pairs that have been returned
Returned ==
  {tk \in issued :
     tk \in {inflight.reg.pair.access_token, inflight.reg.pair.refresh_token}
       => inflight.reg.pc = "done"}

\* update_access_token in flight, one step per call it makes.
\* RefreshValidate: payload = validate_token(refresh_token), only jwt.decode
RefreshValidate ==
  \E h \in Handlers, token \in Returned :
    /\ inflight.refresh[h].pc = "idle"
    /\ inflight' = [inflight EXCEPT !.refresh[h] =
         [pc |-> IF ValidateToken(token, now) = "JWTError"
                 THEN "failed" ELSE "validated",
          token |-> token,
          pair |-> NoPair,
          afterLogout |->
            /\ inflight.scan.pc = "done"
            /\ UpdateAccessTokenSessionId(token) \in inflight.scan.before]]
    /\ UNCHANGED <<now, store, issued, nextJti, invalidated, last, users>>

\* RefreshInvalidate: invalidate_session(session_id, REFRESH TTL)
RefreshInvalidate ==
  \E h \in Handlers :
    /\ inflight.refresh[h].pc = "validated"
    /\ store' = UpdateAccessTokenInvalidate(store,
                   inflight.refresh[h].token, now)
    /\ invalidated' = invalidated \cup
         {UpdateAccessTokenSessionId(inflight.refresh[h].token)}
    /\ inflight' = [inflight EXCEPT !.refresh[h].pc = "invalidated"]
    /\ UNCHANGED <<now, issued, nextJti, last, users>>

\* Pairs a run may issue through update_access_token after its one login
MaxRedeems == 2

\* RefreshIssue: create_token_pair with the payload of the presented token;
\* the new pair is returned.
RefreshIssue ==
  \E h \in Handlers :
    /\ inflight.refresh[h].pc = "invalidated"
    /\ nextJti + 2 <= 2 * (1 + MaxRedeems)
    /\ LET payload == UpdateAccessTokenPayload(inflight.refresh[h].token)
           pair == PairTokens(payload, Uuid4, now)
       IN /\ store' = RegisterPair(store, payload, Uuid4, now)
          /\ issued' = issued \cup {pair.access_token, pair.refresh_token}
          /\ inflight' = [inflight EXCEPT !.refresh[h].pc = "done",
                                          !.refresh[h].pair = pair]
    /\ nextJti' = nextJti + 2
    /\ UNCHANGED <<now, invalidated, last, users>>

\* The first login of a run
RegCreateFirst == nextJti = 0 /\ RegCreate

\* One login, then refreshes next to a logout everywhere, all within the
\* second of the login
NextRedeem ==
  RegCreateFirst \/ RegAccess \/ RegRefresh
    \/ ScanStart \/ ScanKeys \/ ScanStep \/ ScanReturn
    \/ RefreshValidate \/ RefreshInvalidate \/ RefreshIssue

SpecRedeem == Init /\ [][NextRedeem]_vars

\* Registration next to login
NextUser == Tick \/ CreateUser \/ Login \/ Respond

SpecUser == Init /\ [][NextUser]_vars

TypeOK ==
  /\ now \in 0..MaxTime
  /\ nextJti \in 0..(2 * (MaxPairs + MaxRedeems))
  /\ \A k \in DOMAIN store :
       store[k].value \in {"False", "True"} /\ now < store[k].expireAt

\* ------------------------------------------------------ claim vocabulary
KeyOf(tk) == RedisKey(tk.sub, tk.jti)

\* The kind a token was issued as, as the `refresh` argument of token_payload
OwnKind(tk) == tk.token = "refresh"

ValidResult(tk) ==
  [outcome |-> "Valid",
   data |-> [sid |-> tk.sub, jti |-> tk.jti, permissions |-> tk.permissions],
   queried |-> TRUE]

\* The last request was token_payload(tk, refresh) and returned `outcome`
Validated(tk, refresh, outcome) ==
  /\ last.op = "validate"
  /\ last.token = tk
  /\ last.flag = refresh
  /\ last.outcome = outcome

KindSeparation ==
  \A tk \in issued :
    LET r == TokenPayload(tk, ~OwnKind(tk), now, store)
    IN /\ r.outcome # "Valid"
       /\ DecodeOk(tk, now)
            => /\ r.outcome = (IF OwnKind(tk) THEN "BAD_ACCESS_TOKEN"
                               ELSE "BAD_REFRESH_TOKEN")
               /\ ~r.queried
       /\ (last.op = "validate" /\ last.token = tk
             /\ last.flag = ~OwnKind(tk))
            => last.outcome # "Valid"

KindSeparationWitness ==
  \E a \in issued, b \in issued :
    /\ a.token = "access" /\ b.token = "refresh"
    /\ DecodeOk(a, now) /\ DecodeOk(b, now)
    /\ Get(store, KeyOf(a)) = "False"
    /\ Get(store, KeyOf(b)) = "False"
    /\ \/ Validated(a, TRUE, "BAD_REFRESH_TOKEN")
       \/ Validated(b, FALSE, "BAD_ACCESS_TOKEN")

\* C3: once invalidate_session has run on the record of an issued token,
\* token_payload rejects that token in every later state, with either
\* expected kind, also while the token still decodes.
InvalidatedRejected ==
  \A tk \in issued :
    KeyOf(tk) \in invalidated
    => /\ \A refresh \in BOOLEAN :
            TokenPayload(tk, refresh, now, store).outcome # "Valid"
       /\ (last.op = "validate" /\ last.token = tk)
            => last.outcome # "Valid"

InvalidatedRejectedWitness ==
  \E tk \in issued :
    /\ tk.token = "access"
    /\ KeyOf(tk) \in invalidated
    /\ DecodeOk(tk, now)
    /\ Get(store, KeyOf(tk)) = "True"
    /\ Validated(tk, FALSE, "BAD_ACCESS_TOKEN")

\* C4: right after logout with everywhere=true (invalidate_all_sessions)
\* every token issued for that subject, access or refresh, fails validation.
SubjectTokens(sid) == {tk \in issued : tk.sub = sid}

LoggedOutEverywhere ==
  last.op = "logout" /\ last.flag /\ last.outcome = "ok"

Refreshed == last.op = "refresh" /\ last.outcome = "ok"

RefreshRejectsAccessKind ==
  [][(/\ last'.op = "refresh"
      /\ last'.token.token = "access"
      /\ DecodeOk(last'.token, now))
     => /\ last'.outcome = "INCORRECT_CREDENTIALS"
        /\ last'.pair = NoPair
        /\ issued' = issued
        /\ store' = store]_vars

\* C8: refresh called with a refresh token that still decodes but whose
\* record is marked invalid or is absent fails with IncorrectCredentials and
\* issues no pair.
RefreshRejectsRevoked ==
  [][(/\ last'.op = "refresh"
      /\ last'.token.token = "refresh"
      /\ DecodeOk(last'.token, now)
      /\ Get(store, KeyOf(last'.token)) # "False")
     => /\ last'.outcome = "INCORRECT_CREDENTIALS"
        /\ last'.pair = NoPair
        /\ issued' = issued]_vars

\* C9: fail-closed validity. token_payload accepts a presented token only
\* when the record {sub}:{jti} exists and holds "False"; with the record
\* absent or holding another value the token is rejected.
RecordValid(tk) ==
  KeyOf(tk) \in DOMAIN store /\ store[KeyOf(tk)].value = "False"

FailClosed ==
  /\ \A tk \in Presentable, refresh \in BOOLEAN :
       TokenPayload(tk, refresh, now, store).outcome = "Valid"
         <=> /\ RecordValid(tk)
             /\ DecodeOk(tk, now)
             /\ OwnKind(tk) = refresh
             /\ tk.sub # ""
  /\ (last.op = "validate" /\ last.outcome = "Valid")
       => RecordValid(last.token)
  /\ (last.op = "validate" /\ ~RecordValid(last.token))
       => last.outcome \in {"INVALID_TOKEN", "BAD_ACCESS_TOKEN",
                            "BAD_REFRESH_TOKEN", "INCORRECT_CREDENTIALS"}

FailClosedWitness ==
  \E tk \in issued :
    /\ DecodeOk(tk, now)
    /\ KeyOf(tk) \notin DOMAIN store
    /\ KeyOf(tk) \notin invalidated
    /\ tk.token = "refresh"
    /\ Validated(tk, TRUE, "BAD_REFRESH_TOKEN")
    /\ last.queried

\* C10: a token signed with another secret, or whose exp has passed, is
\* answered with INVALID_TOKEN whatever its kind, the expected kind and the
\* state of its record.
DecodeFailure ==
  /\ \A tk \in Presentable, refresh \in BOOLEAN :
       (tk.sig # "good" \/ tk.exp < now)
       => TokenPayload(tk, refresh, now, store) =
            Rejected("INVALID_TOKEN", FALSE)
  /\ (last.op = "validate"
        /\ (last.token.sig # "good" \/ last.token.exp < now))
       => last.outcome = "INVALID_TOKEN"

DecodeFailureWitness ==
  \E tk \in issued :
    /\ tk.exp < now
    /\ RecordValid(tk)
    /\ Validated(tk, OwnKind(tk), "INVALID_TOKEN")

\* ---------------------------------------------------------------- C11
\* C11: every rejection of TokenValidator.validate_access_token and of
\* TokenValidator.validate_refresh_token reaches the caller as the one
\* INCORRECT_CREDENTIALS error, whatever the reason of the rejection.
SingleVisibleFailure ==
  (last.op = "validator" /\ last.outcome # "Valid")
    => last.outcome = "INCORRECT_CREDENTIALS"

\* ---------------------------------------------------------------- C12
\* The submitted form names a stored user and carries that user's password.
GoodCredentials(cred) ==
  \E u \in users :
    u.email = cred[1] /\ u.hashed_password = GetPasswordHash(cred[2])

Starts(op) == last.op = "none" /\ last'.op = op

\* C13: a logout with everywhere = false whose access token fails
\* validation ends with INCORRECT_CREDENTIALS and writes nothing to Redis.
LogoutFailure ==
  [][(/\ Starts("logout")
      /\ ~last'.flag
      /\ last'.token # EmptyToken
      /\ TokenPayload(last'.token, FALSE, now, store).outcome # "Valid")
       => /\ last'.outcome = "INCORRECT_CREDENTIALS"
          /\ store' = store]_vars

\* ---------------------------------------------------------------- C14
\* The records holding the valid marker that a step wrote
WrittenValid ==
  {k \in DOMAIN store' :
     /\ store'[k].value = "False"
     /\ (k \in DOMAIN store => store'[k] # store[k])}

\* The pair returned by the step is registered: exactly its two keys are
\* written with the valid marker.
PairRegistered ==
  /\ WrittenValid = {KeyOf(last'.pair.access_token),
                     KeyOf(last'.pair.refresh_token)}
  /\ KeyOf(last'.pair.access_token) # KeyOf(last'.pair.refresh_token)

BadToken(refresh) ==
  IF refresh THEN "BAD_REFRESH_TOKEN" ELSE "BAD_ACCESS_TOKEN"

\* C17: token_payload ends in one outcome, Valid or one rejection, and
\* checks in the order decode, kind, non-empty subject, Redis record: the
\* rejection is that of the first failing check, and Redis is read only when
\* decode, kind and subject have all passed.
ValidationOrder ==
  last.op = "validate" =>
    LET tk == last.token
        decoded == tk.sig = "good" /\ now <= tk.exp
    IN IF ~decoded
       THEN last.outcome = "INVALID_TOKEN" /\ ~last.queried
       ELSE IF OwnKind(tk) # last.flag
       THEN last.outcome = BadToken(last.flag) /\ ~last.queried
       ELSE IF tk.sub = ""
       THEN last.outcome = "INCORRECT_CREDENTIALS" /\ ~last.queried
       ELSE /\ last.queried
            /\ IF RecordValid(tk)
               THEN last.outcome = "Valid" /\ last.data.jti = tk.jti
               ELSE last.outcome = BadToken(last.flag)

\* A decodable token whose record was invalidated is presented as the other
\* kind: it is rejected for its kind and Redis is not read.
ValidationOrderWitness ==
  /\ last.op = "validate"
  /\ last.token \in issued
  /\ last.token.exp >= now
  /\ OwnKind(last.token) # last.flag
  /\ KeyOf(last.token) \in DOMAIN store
  /\ store[KeyOf(last.token)].value = "True"
  /\ last.outcome = BadToken(last.flag)
  /\ ~last.queried

CreateUserUnique ==
  /\ [](\A u, v \in users : u.email = v.email => u = v)
  /\ [][Starts("create_user")
         => IF \E u \in users : u.email = last'.cred[1]
            THEN /\ last'.outcome = "EMAIL_ALREADY_EXISTS"
                 /\ ErrorCodes[last'.outcome] = <<203, 400>>
                 /\ last'.user = NoUser
                 /\ users' = users
            ELSE /\ last'.outcome = "ok"
                 /\ last'.user.email = last'.cred[1]
                 /\ last'.user.hashed_password = last'.cred[2]
                 /\ last'.user.sid \notin {u.sid : u \in users}
                 /\ users' = users \cup {last'.user}]_vars

\* A user was created, and a later create_user with that user's email
\* failed.
CreateUserUniqueWitness ==
  /\ last.op = "create_user"
  /\ last.outcome = "EMAIL_ALREADY_EXISTS"
  /\ last.cred[1] = "c@x"
  /\ \E u \in users : u.email = "c@x" /\ u.sid \in FreshSids

MarkerLifetime ==
  /\ [](\A k \in DOMAIN store : now < store[k].expireAt)
  /\ [][\A k \in DOMAIN store :
          (store[k].value = "True" /\ now' < store[k].expireAt)
            => (k \in DOMAIN store' /\ store'[k].value = "True")]_vars
  /\ [](\A tk \in issued :
          KeyOf(tk) \in invalidated
            => /\ ~RecordValid(tk)
               /\ (last.op = "validate" /\ last.token = tk)
                    => last.outcome # "Valid")

\* A token that still decodes is validated as its own kind after the invalid
\* marker of its record has expired: it is rejected, the record being absent.
MarkerLifetimeWitness ==
  /\ last.op = "validate"
  /\ last.token \in issued
  /\ last.token.exp >= now
  /\ last.flag = OwnKind(last.token)
  /\ KeyOf(last.token) \in invalidated
  /\ KeyOf(last.token) \notin DOMAIN store
  /\ last.queried
  /\ last.outcome = BadToken(last.flag)

\* ---------------------------------------------------------------- C23
\* The database in which key k was registered at time t with TTL ttl: k holds
\* the valid marker until t + ttl, every other key live at t is as in st.
RegisteredAt(st, k, ttl, t) ==
  [x \in {y \in DOMAIN st : t < st[y].expireAt} \cup {k} |->
     IF x = k THEN [value |-> "False", expireAt |-> t + ttl] ELSE st[x]]

RevocationPermanent ==
  /\ [][\A tk \in issued :
          ~RecordValid(tk)
            => ~(/\ KeyOf(tk) \in DOMAIN store'
                 /\ store'[KeyOf(tk)].value = "False")]_vars
  /\ [][\A k \in WrittenValid :
          /\ k \notin DOMAIN store
          /\ k \notin {KeyOf(tk) : tk \in issued}
          /\ k[2] \notin {tk.jti : tk \in issued}]_vars
  /\ [](\A tk \in issued :
          (last.op = "validate" /\ last.token = tk /\ ~RecordValid(tk))
            => last.outcome # "Valid")

\* A token whose record was invalidated is rejected while a pair issued
\* later to the same subject is valid.
RevocationPermanentWitness ==
  /\ last.op = "validate"
  /\ last.token \in issued
  /\ last.flag = OwnKind(last.token)
  /\ last.token.exp >= now
  /\ KeyOf(last.token) \in invalidated
  /\ last.queried
  /\ last.outcome = BadToken(last.flag)
  /\ \E tk \in issued :
       /\ tk.sub = last.token.sub
       /\ tk.jti > last.token.jti + 1
       /\ RecordValid(tk)

ValidationReadOnly ==
  [][(Starts("validate") \/ Starts("validator"))
       => /\ store' = store
          /\ now' = now
          /\ LET again ==
                   IF last'.op = "validate"
                   THEN TokenPayload(last'.token, last'.flag, now', store')
                   ELSE IF last'.flag
                   THEN ValidateRefreshToken(last'.token, now', store')
                   ELSE ValidateAccessToken(last'.token, now', store')
             IN /\ again.outcome = last'.outcome
                /\ again.data = last'.data]_vars

\* A token was accepted after Redis was read, and its record is still the
\* one written at issuance.
ValidationReadOnlyWitness ==
  /\ last.op = "validate"
  /\ last.outcome = "Valid"
  /\ last.queried
  /\ last.token.token = "access"
  /\ KeyOf(last.token) \in DOMAIN store
  /\ store[KeyOf(last.token)] =
       [value |-> "False",
        expireAt |-> last.token.exp]
  /\ now > last.token.exp - ACCESS_TOKEN_EXPIRE_SECONDS

\* ---------------------------------------------------------------- C21
\* The records present after the step that were not present before it
AddedKeys == DOMAIN store' \ DOMAIN store

\* Every record present before the step is unchanged, or its TTL ran out.
OldRecordsKept ==
  \A x \in DOMAIN store :
    IF now' < store[x].expireAt
    THEN x \in DOMAIN store' /\ store'[x] = store[x]
    ELSE x \notin DOMAIN store'

\* C21: create_token_pair has no rollback. It registers the access record
\* first and the refresh record second; when the first SETEX raises nothing
\* is registered, when the second raises the error reaches the caller, no
\* token is returned and the access record stays registered as valid.
NoRollback ==
  [][(Starts("issue") /\ last'.fault # 0)
       => /\ last'.outcome = "RedisError"
          /\ last'.pair = NoPair
          /\ issued' = issued
          /\ OldRecordsKept
          /\ IF last'.fault = 1
             THEN AddedKeys = {}
             ELSE \E k \in AddedKeys :
                    /\ AddedKeys = {k}
                    /\ k[2] = nextJti + 1
                    /\ store'[k] =
                         [value |-> "False",
                          expireAt |-> now' + ACCESS_TOKEN_EXPIRE_SECONDS]]_vars

\* The second SETEX raised: the access record of the pair that was never
\* returned is valid, the refresh record does not exist.
NoRollbackWitness ==
  /\ last.op = "issue"
  /\ last.fault = 2
  /\ last.outcome = "RedisError"
  /\ \E k \in DOMAIN store :
       /\ k[2] = nextJti - 1
       /\ store[k].value = "False"
       /\ k[2] \notin {tk.jti : tk \in issued}
  /\ \A k \in DOMAIN store : k[2] # nextJti

\* ---------------------------------------------------------------- C24
\* token_payload reaches its GET for this token and expected kind.
ReachesGet(tk, refresh) ==
  /\ tk.sig = "good"
  /\ now <= tk.exp
  /\ OwnKind(tk) = refresh
  /\ tk.sub # ""

\* delete_tokens is reached by a logout presenting this token.
ReachesDeleteTokens(tk) ==
  /\ ReachesGet(tk, FALSE)
  /\ RecordValid(tk)
  /\ \E u \in users : u.sid = tk.sub

====
